---- MODULE Spec2Model ----
(***************************************************************************)
(* A model of video699/research-dataset: the object model of the dataset   *)
(* (src/dataset.py) and the quadrilateral crop (src/review.py).            *)
(*                                                                         *)
(* Objects are records.  A Video is identified by its position in          *)
(* Dataset.videos, a Page by (video, document, index).  Attributes that    *)
(* are copied from the XML and never read again (filenames, fps, numbers,  *)
(* vgg256 descriptors) are left out of the records.  A KeyRef record keeps *)
(* the text of its XML element in the field `text`, which the Python       *)
(* object only uses for the lookup.                                        *)
(***************************************************************************)
EXTENDS Integers, Sequences, FiniteSets, TLC

VARIABLES
    pc,          \* position of Dataset.__init__ / Video.__init__
    element,     \* the XML tree handed to Dataset.__init__: a sequence of video elements
    dataset,     \* the Dataset object under construction (self)
    video,       \* the Video object under construction
    idx,         \* index of the running loop of Video.__init__
    result,      \* what the caller of Dataset(...) has received
    screen,      \* the Screen object most recently constructed on its own
    outlier,     \* the most recent call of Screen.is_outlier: arguments and return value
    rng,         \* the state of the process-wide random generator
    samples,     \* the calls of task1_evaluation_dataset made so far, with their results
    cropped      \* the most recent call of crop: arguments and what it computed

vars == <<pc, element, dataset, video, idx, result, screen, outlier, rng, samples, cropped>>

buildVars == <<pc, element, dataset, video, idx, result>>
screenVars == <<screen, outlier>>
foldVars == <<rng, samples>>

----------------------------------------------------------------------------
(* Bounds of the model *)

MaxVideos == 2        \* video elements per dataset
MaxNodes == 4         \* document and frame elements per dataset
MaxScreenKeyrefs == 2 \* keyref elements of a screen constructed on its own
MaxDeviations == 2    \* coordinates of a screen that differ from the frame's corners
VideoWidth == 4       \* width attribute of the video elements
VideoHeight == 3      \* height attribute of the video elements
MaxFoldVideos == 5    \* videos of the dataset that is sampled
MaxFolds == 4         \* k_folds passed to task1_evaluation_dataset
MaxSamples == 2       \* calls of task1_evaluation_dataset that are recorded
RngModulus == 16      \* number of states of the random generator
MaxCoordinate == 2    \* largest corner coordinate passed to crop

(* Program constants *)

FOLDS_NUM == 17
RANDOM_STATE == 12345

Keys == {"a", "b"}
Similarities == {"full", "partial"}
Conditions == {"normal", "windowed", "obstacle"}

Max(a, b) == IF a >= b THEN a ELSE b

SeqsUpTo(S, lo, hi) == UNION {[1..n -> S] : n \in lo..hi}

Range(s) == {s[i] : i \in DOMAIN s}

----------------------------------------------------------------------------
(* Screen: bounds, keyrefs, matching pages, outliers *)

Coordinate(x, y) == [x |-> x, y |-> y]

BoundingQuadrilinear(top_left, top_right, bottom_left, bottom_right) ==
    [top_left |-> top_left, top_right |-> top_right,
     bottom_left |-> bottom_left, bottom_right |-> bottom_right]

IsBeyondBoundsStrict(bounds, width, height) ==
       bounds.top_left.x < 0
    \/ bounds.bottom_left.x < 0
    \/ bounds.top_right.x > width
    \/ bounds.bottom_right.x > width
    \/ bounds.top_left.y < 0
    \/ bounds.top_right.y < 0
    \/ bounds.bottom_left.y > height
    \/ bounds.bottom_right.y > height

IsBeyondBounds(bounds, width, height) ==
       bounds.top_left.x < 0
    \/ bounds.bottom_left.x < 0
    \/ bounds.top_right.x >= width
    \/ bounds.bottom_right.x >= width
    \/ bounds.top_left.y < 0
    \/ bounds.top_right.y < 0
    \/ bounds.bottom_left.y >= height
    \/ bounds.bottom_right.y >= height

\* KeyRef.__init__ raises KeyError when the key is not in the video's page_dict.
KeyRefRaises(v, kelem) == kelem.text \notin DOMAIN v.page_dict

KeyRefInit(v, kelem) ==
    [video |-> v.id,
     page |-> v.page_dict[kelem.text],
     similarity |-> kelem.similarity,
     text |-> kelem.text]

MatchingPagesFullOnly(keyrefs) ==
    {keyrefs[i].page : i \in {j \in DOMAIN keyrefs : keyrefs[j].similarity = "full"}}

MatchingPages(keyrefs) ==
    LET full == {keyrefs[i].page :
                    i \in {j \in DOMAIN keyrefs : keyrefs[j].similarity = "full"}}
    IN  IF full = {} THEN {keyrefs[i].page : i \in DOMAIN keyrefs} ELSE full

ScreenRaises(v, selem) ==
    \E i \in DOMAIN selem.keyrefs : KeyRefRaises(v, selem.keyrefs[i])

ScreenInit(v, frame, selem) ==
    LET bounds == BoundingQuadrilinear(Coordinate(selem.x0, selem.y0),
                                       Coordinate(selem.x1, selem.y1),
                                       Coordinate(selem.x2, selem.y2),
                                       Coordinate(selem.x3, selem.y3))
        keyrefs == [i \in DOMAIN selem.keyrefs |-> KeyRefInit(v, selem.keyrefs[i])]
    IN  [video |-> v.id,
         frame |-> frame,
         condition |-> selem.condition,
         bounds |-> bounds,
         is_beyond_bounds |-> IsBeyondBounds(bounds, v.width, v.height),
         keyrefs |-> keyrefs,
         matching_pages |-> MatchingPages(keyrefs)]

HasFull(s) == \E i \in DOMAIN s.keyrefs : s.keyrefs[i].similarity = "full"

IsOutlierUngated(s, windowed, obstacle, beyond_bounds, incremental, no_match) ==
    IF windowed /\ s.condition = "windowed" THEN TRUE
    ELSE IF obstacle /\ s.condition = "obstacle" THEN TRUE
    ELSE IF beyond_bounds /\ s.is_beyond_bounds THEN TRUE
    ELSE IF ~HasFull(s) THEN TRUE
    ELSE IF no_match /\ Len(s.keyrefs) = 0 THEN TRUE
    ELSE FALSE

IsOutlierNoMatchDropped(s, windowed, obstacle, beyond_bounds, incremental, no_match) ==
    IF windowed /\ s.condition = "windowed" THEN TRUE
    ELSE IF obstacle /\ s.condition = "obstacle" THEN TRUE
    ELSE IF beyond_bounds /\ s.is_beyond_bounds THEN TRUE
    ELSE IF incremental /\ ~HasFull(s) THEN TRUE
    ELSE FALSE

IsOutlier(s, windowed, obstacle, beyond_bounds, incremental, no_match) ==
    IF windowed /\ s.condition = "windowed" THEN TRUE
    ELSE IF obstacle /\ s.condition = "obstacle" THEN TRUE
    ELSE IF beyond_bounds /\ s.is_beyond_bounds THEN TRUE
    ELSE IF incremental /\ ~HasFull(s) THEN TRUE
    ELSE IF no_match /\ Len(s.keyrefs) = 0 THEN TRUE
    ELSE FALSE

----------------------------------------------------------------------------
(* Inputs: XML elements *)

KeyrefElements(keys) == [text : keys, similarity : Similarities]

CoordinateNames == {"x0", "y0", "x1", "y1", "x2", "y2", "x3", "y3"}

\* The quadrilateral that coincides with the frame of the video.
FrameCorners ==
    [c \in CoordinateNames |->
        CASE c \in {"x0", "x2", "y0", "y1"} -> 0
          [] c \in {"x1", "x3"} -> VideoWidth - 1
          [] c \in {"y2", "y3"} -> VideoHeight - 1]

\* The extent of the video along the axis of coordinate c.
Extent(c) == IF c \in {"x0", "x1", "x2", "x3"} THEN VideoWidth ELSE VideoHeight

\* The values a coordinate takes: just outside and just inside either edge.
EdgeValue(c, k) ==
    CASE k = 0 -> -1
      [] k = 1 -> 0
      [] k = 2 -> Extent(c) - 1
      [] k = 3 -> Extent(c)

\* The quadrilaterals that differ from FrameCorners in at most d coordinates.
Quadrilaterals(d) ==
    {[c \in CoordinateNames |->
            IF c \in DOMAIN f THEN EdgeValue(c, f[c]) ELSE FrameCorners[c]] :
        f \in UNION {[S -> 0..3] :
                        S \in {T \in SUBSET CoordinateNames : Cardinality(T) <= d}}}

ScreenElement(condition, q, keyrefs) ==
    [condition |-> condition,
     x0 |-> q["x0"], y0 |-> q["y0"], x1 |-> q["x1"], y1 |-> q["y1"],
     x2 |-> q["x2"], y2 |-> q["y2"], x3 |-> q["x3"], y3 |-> q["y3"],
     keyrefs |-> keyrefs]

----------------------------------------------------------------------------
(* State that an operation leaves alone *)

NoScreen == [state |-> "none"]
NoCall == [called |-> FALSE]
NoCrop == [called |-> FALSE]

EmptyVideo ==
    [id |-> 0, width |-> 0, height |-> 0, documents |-> <<>>, pages |-> <<>>,
     page_dict |-> <<>>, frames |-> <<>>, screens |-> <<>>, keyrefs |-> <<>>]

EmptyDataset ==
    [videos |-> <<>>, documents |-> <<>>, pages |-> <<>>, frames |-> <<>>,
     screens |-> <<>>, keyrefs |-> <<>>]

BuildIdle ==
    /\ pc = "idle" /\ element = <<>> /\ dataset = EmptyDataset
    /\ video = EmptyVideo /\ idx = 0 /\ result = [returned |-> "nothing"]

----------------------------------------------------------------------------
(* Screens constructed on their own, and Screen.is_outlier *)

Page(v, d, i, key) == [video |-> v, document |-> d, index |-> i, key |-> key]

\* A video with one document that has one page for every key of Keys.
LoneVideo ==
    [EmptyVideo EXCEPT
        !.id = 1, !.width = VideoWidth, !.height = VideoHeight,
        !.page_dict = [k \in Keys |-> Page(1, 1, IF k = "a" THEN 1 ELSE 2, k)]]

LoneScreenElements(quads, keyrefSeqs) ==
    {ScreenElement(c, q, ks) : c \in Conditions, q \in quads, ks \in keyrefSeqs}

ConstructScreen(selems) ==
    \E selem \in selems :
        /\ screen.state = "none"
        /\ ~ScreenRaises(LoneVideo, selem)
        /\ screen' = [state |-> "built", obj |-> ScreenInit(LoneVideo, 1, selem)]
        /\ outlier' = NoCall
        /\ UNCHANGED <<buildVars, foldVars, cropped>>

ConstructScreenKeyError(selems) ==
    \E selem \in selems :
        /\ screen.state = "none"
        /\ ScreenRaises(LoneVideo, selem)
        /\ screen' = [state |-> "KeyError"]
        /\ outlier' = NoCall
        /\ UNCHANGED <<buildVars, foldVars, cropped>>

Flags == [windowed : BOOLEAN, obstacle : BOOLEAN, beyond_bounds : BOOLEAN,
          incremental : BOOLEAN, no_match : BOOLEAN]

CallIsOutlier(flags) ==
    \E f \in flags :
        /\ screen.state = "built"
        /\ outlier' = [called |-> TRUE, flags |-> f,
                       value |-> IsOutlier(screen.obj, f.windowed, f.obstacle,
                                           f.beyond_bounds, f.incremental, f.no_match)]
        /\ UNCHANGED <<buildVars, screen, foldVars, cropped>>

\* Screens with few bounds and many keyrefs, called with every combination of toggles.
ScreenInputs ==
    LoneScreenElements(Quadrilaterals(0) \cup {[FrameCorners EXCEPT !["x0"] = -1]},
                       SeqsUpTo(KeyrefElements(Keys \cup {"c"}), 0, MaxScreenKeyrefs))

InitScreen ==
    /\ BuildIdle
    /\ screen = NoScreen /\ outlier = NoCall
    /\ rng = 0 /\ samples = <<>> /\ cropped = NoCrop

NextScreen ==
    \/ ConstructScreen(ScreenInputs)
    \/ ConstructScreenKeyError(ScreenInputs)
    \/ CallIsOutlier(Flags)

SpecScreen == InitScreen /\ [][NextScreen]_vars

\* Screens with many bounds and few keyrefs, called with only beyond_bounds or nothing on.
BoundsInputs ==
    LoneScreenElements(Quadrilaterals(MaxDeviations),
                       SeqsUpTo(KeyrefElements({"a"}), 0, 1))

BoundsFlags ==
    {f \in Flags : ~f.windowed /\ ~f.obstacle /\ ~f.incremental /\ ~f.no_match}

NextBounds ==
    \/ ConstructScreen(BoundsInputs)
    \/ CallIsOutlier(BoundsFlags)

SpecBounds == InitScreen /\ [][NextBounds]_vars

----------------------------------------------------------------------------
(* Claims about Screen, checked under SpecScreen and SpecBounds *)

PagesOf(keyrefs, sims) ==
    {p \in {keyrefs[i].page : i \in DOMAIN keyrefs} :
        \E i \in DOMAIN keyrefs : keyrefs[i].page = p /\ keyrefs[i].similarity \in sims}

\* C1: the matching_pages of a constructed Screen are the pages of its "full"
\* keyrefs when there are any, otherwise the pages of all of its keyrefs, and
\* the empty set when it has no keyrefs.
C1_MatchingPages ==
    screen.state = "built" =>
        LET s == screen.obj
            full == PagesOf(s.keyrefs, {"full"})
            any == PagesOf(s.keyrefs, Similarities)
        IN  /\ full # {} => s.matching_pages = full
            /\ full = {} => s.matching_pages = any
            /\ Len(s.keyrefs) = 0 => s.matching_pages = {}

C1_Witness ==
    /\ screen.state = "built"
    /\ Len(screen.obj.keyrefs) = 2
    /\ screen.obj.keyrefs[1].similarity = "partial"
    /\ screen.obj.keyrefs[2].similarity = "full"
    /\ screen.obj.keyrefs[1].page # screen.obj.keyrefs[2].page
    /\ screen.obj.matching_pages = {screen.obj.keyrefs[2].page}

\* The conditions of the five toggles; `incremental` is a parameter because the
\* two readings of it differ.
EnabledConditionHolds(s, f, incremental) ==
    \/ f.windowed /\ s.condition = "windowed"
    \/ f.obstacle /\ s.condition = "obstacle"
    \/ f.beyond_bounds /\ s.is_beyond_bounds
    \/ f.incremental /\ incremental
    \/ f.no_match /\ Len(s.keyrefs) = 0

\* C2 as stated: is_outlier returns true exactly when an enabled toggle's
\* condition holds, where incremental means "at least one keyref, none of them
\* full".
C2_Original ==
    outlier.called =>
        (outlier.value <=>
            EnabledConditionHolds(screen.obj, outlier.flags,
                                  Len(screen.obj.keyrefs) > 0 /\ ~HasFull(screen.obj)))

\* C2 amended: is_outlier returns true exactly when an enabled toggle's
\* condition holds, where incremental means "no keyref is full", which includes
\* the Screen without keyrefs.
C2_Amended ==
    outlier.called =>
        (outlier.value <=>
            EnabledConditionHolds(screen.obj, outlier.flags,
                \A i \in DOMAIN screen.obj.keyrefs :
                    screen.obj.keyrefs[i].similarity # "full"))

C2_Witness ==
    /\ outlier.called
    /\ outlier.flags = [windowed |-> FALSE, obstacle |-> FALSE, beyond_bounds |-> FALSE,
                        incremental |-> TRUE, no_match |-> FALSE]
    /\ screen.obj.condition = "normal"
    /\ ~screen.obj.is_beyond_bounds
    /\ Len(screen.obj.keyrefs) = 0
    /\ outlier.value = TRUE

OnlyBeyondBounds ==
    [windowed |-> FALSE, obstacle |-> FALSE, beyond_bounds |-> TRUE,
     incremental |-> FALSE, no_match |-> FALSE]

\* C6: with only beyond_bounds on, is_outlier returns true exactly when a left
\* x or a top y is negative, or a right x is at least the video's width, or a
\* bottom y is at least the video's height.
C6_BeyondBoundsOnly ==
    (outlier.called /\ outlier.flags = OnlyBeyondBounds) =>
        LET b == screen.obj.bounds
        IN  outlier.value <=>
                \/ b.top_left.x < 0 \/ b.bottom_left.x < 0
                \/ b.top_right.x >= LoneVideo.width \/ b.bottom_right.x >= LoneVideo.width
                \/ b.top_left.y < 0 \/ b.top_right.y < 0
                \/ b.bottom_left.y >= LoneVideo.height
                \/ b.bottom_right.y >= LoneVideo.height

\* A screen whose bottom right corner lies on the row just below the video, with
\* every other coordinate on the frame of the video.
C6_Witness ==
    /\ outlier.called /\ outlier.flags = OnlyBeyondBounds
    /\ screen.obj.bounds =
            BoundingQuadrilinear(Coordinate(0, 0), Coordinate(VideoWidth - 1, 0),
                                 Coordinate(0, VideoHeight - 1),
                                 Coordinate(VideoWidth - 1, VideoHeight))
    /\ outlier.value = TRUE

AllOff ==
    [windowed |-> FALSE, obstacle |-> FALSE, beyond_bounds |-> FALSE,
     incremental |-> FALSE, no_match |-> FALSE]

\* C7: with all five toggles off, is_outlier returns false for every Screen.
C7_AllOff ==
    (outlier.called /\ outlier.flags = AllOff) => outlier.value = FALSE

C7_Witness ==
    /\ outlier.called /\ outlier.flags = AllOff
    /\ screen.obj.condition = "windowed"
    /\ screen.obj.is_beyond_bounds
    /\ Len(screen.obj.keyrefs) = 0
    /\ outlier.value = FALSE

----------------------------------------------------------------------------
(* Dataset.__init__: inputs *)

\* The documents of a whole dataset: one page, or a page for either key.
DocumentNodes ==
    {[tag |-> "document", pages |-> ps, screens |-> <<>>] :
        ps \in {<<[key |-> "a"]>>, <<[key |-> "b"]>>, <<[key |-> "a"], [key |-> "b"]>>}}

\* The frames of a whole dataset: one screen on the frame of the video with
\* one keyref.
FrameNodes ==
    {[tag |-> "frame", pages |-> <<>>,
      screens |-> <<ScreenElement("normal", FrameCorners, <<k>>)>>] :
        k \in {[text |-> "a", similarity |-> "full"],
               [text |-> "b", similarity |-> "partial"]}}

RECURSIVE Sum(_)
Sum(lens) == IF lens = <<>> THEN 0 ELSE Head(lens) + Sum(Tail(lens))

\* The video elements that have lens[v] of the nodes each, in the order of nodes.
Split(nodes, lens) ==
    [v \in DOMAIN lens |->
        [width |-> VideoWidth, height |-> VideoHeight,
         children |-> SubSeq(nodes, Sum(SubSeq(lens, 1, v - 1)) + 1,
                             Sum(SubSeq(lens, 1, v)))]]

\* lens cuts the nodes into the children of Len(lens) videos.
Cuts(nodes, lens) == Sum(lens) = Len(nodes)

----------------------------------------------------------------------------
(* Dataset.__init__: the objects *)

IsDocument(node) == node.tag = "document"
IsFrame(node) == node.tag = "frame"

RECURSIVE Flatten(_)
Flatten(ss) == IF ss = <<>> THEN <<>> ELSE Head(ss) \o Flatten(Tail(ss))

\* element.findall(".//document"), cut short at the first frame of the video.
FindDocumentsBeforeFrames(velem) ==
    LET firstFrame == IF \E n \in DOMAIN velem.children : IsFrame(velem.children[n])
                      THEN CHOOSE n \in DOMAIN velem.children :
                              /\ IsFrame(velem.children[n])
                              /\ \A m \in 1..(n - 1) : ~IsFrame(velem.children[m])
                      ELSE Len(velem.children) + 1
    IN  SelectSeq(SubSeq(velem.children, 1, firstFrame - 1), IsDocument)

\* element.findall(".//document"): every document of the video, in source order.
FindDocuments(velem) == SelectSeq(velem.children, IsDocument)

\* element.findall(".//frame"): every frame of the video, in source order.
FindFrames(velem) == SelectSeq(velem.children, IsFrame)

DocumentInit(v, d, delem) ==
    [video |-> v, index |-> d,
     pages |-> [n \in DOMAIN delem.pages |-> Page(v, d, n, delem.pages[n].key)]]

\* A page_dict that starts from the one of the video built before.
PageDictShared(ds) ==
    IF Len(ds.videos) = 0 THEN <<>> ELSE ds.videos[Len(ds.videos)].page_dict

\* self.page_dict = {}
PageDictInit(ds) == <<>>

\* for page in document.pages: self.page_dict[page.key] = page
RECURSIVE AddPages(_, _)
AddPages(page_dict, pages) ==
    IF pages = <<>> THEN page_dict
    ELSE AddPages([k \in DOMAIN page_dict \cup {Head(pages).key} |->
                        IF k = Head(pages).key THEN Head(pages) ELSE page_dict[k]],
                  Tail(pages))

FrameRaises(v, felem) ==
    \E n \in DOMAIN felem.screens : ScreenRaises(v, felem.screens[n])

FrameInit(v, f, felem) ==
    LET screens == [n \in DOMAIN felem.screens |-> ScreenInit(v, f, felem.screens[n])]
    IN  [video |-> v.id, index |-> f,
         screens |-> screens,
         keyrefs |-> Flatten([n \in DOMAIN screens |-> screens[n].keyrefs])]

----------------------------------------------------------------------------
(* Dataset.__init__: the steps *)

\* The video element that Video.__init__ is working on.
Current == element[video.id]

DatasetInit ==
    /\ pc = "idle"
    \* a dataset of at most MaxVideos videos and at most MaxNodes nodes in all
    /\ \E n \in 0..MaxVideos, m \in 0..MaxNodes :
          \E nodes \in [1..m -> DocumentNodes \cup FrameNodes], lens \in [1..n -> 0..m] :
              /\ Cuts(nodes, lens)
              /\ element' = Split(nodes, lens)
    /\ dataset' = EmptyDataset
    /\ pc' = "videos"
    /\ UNCHANGED <<video, idx, result, screenVars, foldVars, cropped>>

VideoStart ==
    /\ pc = "videos"
    /\ Len(dataset.videos) < Len(element)
    /\ LET id == Len(dataset.videos) + 1
       IN  video' = [EmptyVideo EXCEPT !.id = id, !.width = element[id].width,
                                       !.height = element[id].height]
    /\ idx' = 1
    /\ pc' = "documents"
    /\ UNCHANGED <<element, dataset, result, screenVars, foldVars, cropped>>

BuildDocument ==
    /\ pc = "documents"
    /\ idx <= Len(FindDocuments(Current))
    /\ video' = [video EXCEPT
            !.documents = Append(@, DocumentInit(video.id, idx, FindDocuments(Current)[idx]))]
    /\ idx' = idx + 1
    /\ UNCHANGED <<pc, element, dataset, result, screenVars, foldVars, cropped>>

StartPageDict ==
    /\ pc = "documents"
    /\ idx > Len(FindDocuments(Current))
    /\ video' = [video EXCEPT !.pages = <<>>, !.page_dict = PageDictInit(dataset)]
    /\ idx' = 1
    /\ pc' = "page_dict"
    /\ UNCHANGED <<element, dataset, result, screenVars, foldVars, cropped>>

FillPageDict ==
    /\ pc = "page_dict"
    /\ idx <= Len(video.documents)
    /\ video' = [video EXCEPT
            !.pages = @ \o video.documents[idx].pages,
            !.page_dict = AddPages(@, video.documents[idx].pages)]
    /\ idx' = idx + 1
    /\ UNCHANGED <<pc, element, dataset, result, screenVars, foldVars, cropped>>

StartFrames ==
    /\ pc = "page_dict"
    /\ idx > Len(video.documents)
    /\ video' = [video EXCEPT !.frames = <<>>, !.screens = <<>>, !.keyrefs = <<>>]
    /\ idx' = 1
    /\ pc' = "frames"
    /\ UNCHANGED <<element, dataset, result, screenVars, foldVars, cropped>>

BuildFrame ==
    /\ pc = "frames"
    /\ idx <= Len(FindFrames(Current))
    /\ ~FrameRaises(video, FindFrames(Current)[idx])
    /\ LET frame == FrameInit(video, idx, FindFrames(Current)[idx])
       IN  video' = [video EXCEPT !.frames = Append(@, frame),
                                  !.screens = @ \o frame.screens,
                                  !.keyrefs = @ \o frame.keyrefs]
    /\ idx' = idx + 1
    /\ UNCHANGED <<pc, element, dataset, result, screenVars, foldVars, cropped>>

\* The KeyError handled, and the graph built so far handed to the caller.
KeyErrorSwallowed ==
    /\ pc = "frames"
    /\ idx <= Len(FindFrames(Current))
    /\ FrameRaises(video, FindFrames(Current)[idx])
    /\ pc' = "done"
    /\ result' = [returned |-> "Dataset", value |-> dataset]
    /\ UNCHANGED <<element, dataset, video, idx, screenVars, foldVars, cropped>>

\* The KeyError of KeyRef.__init__ leaves Screen, Frame, Video and Dataset.__init__.
KeyError ==
    /\ pc = "frames"
    /\ idx <= Len(FindFrames(Current))
    /\ FrameRaises(video, FindFrames(Current)[idx])
    /\ pc' = "failed"
    /\ result' = [returned |-> "KeyError"]
    /\ UNCHANGED <<element, dataset, video, idx, screenVars, foldVars, cropped>>

VideoDone ==
    /\ pc = "frames"
    /\ idx > Len(FindFrames(Current))
    /\ dataset' = [videos |-> Append(dataset.videos, video),
                   documents |-> dataset.documents \o video.documents,
                   pages |-> dataset.pages \o video.pages,
                   frames |-> dataset.frames \o video.frames,
                   screens |-> dataset.screens \o video.screens,
                   keyrefs |-> dataset.keyrefs \o video.keyrefs]
    /\ pc' = "videos"
    /\ UNCHANGED <<element, video, idx, result, screenVars, foldVars, cropped>>

DatasetDone ==
    /\ pc = "videos"
    /\ Len(dataset.videos) = Len(element)
    /\ pc' = "done"
    /\ result' = [returned |-> "Dataset", value |-> dataset]
    /\ UNCHANGED <<element, dataset, video, idx, screenVars, foldVars, cropped>>

InitBuild == InitScreen

NextBuild ==
    \/ DatasetInit
    \/ VideoStart
    \/ BuildDocument
    \/ StartPageDict
    \/ FillPageDict
    \/ StartFrames
    \/ BuildFrame
    \/ KeyError
    \/ VideoDone
    \/ DatasetDone

Spec == InitBuild /\ [][NextBuild]_vars

----------------------------------------------------------------------------
(* Claims about Dataset.__init__, checked under Spec *)

\* The keys of the page elements of a video element, wherever they stand.
PageKeysOf(velem) ==
    UNION {{velem.children[n].pages[m].key : m \in DOMAIN velem.children[n].pages} :
            n \in DOMAIN velem.children}

\* The texts of the keyref elements of a video element.
KeyrefTextsOf(velem) ==
    UNION {UNION {{velem.children[n].screens[m].keyrefs[k].text :
                        k \in DOMAIN velem.children[n].screens[m].keyrefs} :
                    m \in DOMAIN velem.children[n].screens} :
            n \in DOMAIN velem.children}

\* A frame of the video element stands before a document that has a page with
\* the key of one of the frame's keyrefs.
RefersForward(velem) ==
    \E n, m \in DOMAIN velem.children :
        /\ n < m
        /\ IsFrame(velem.children[n]) /\ IsDocument(velem.children[m])
        /\ \E s \in DOMAIN velem.children[n].screens :
              \E k \in DOMAIN velem.children[n].screens[s].keyrefs :
                \E q \in DOMAIN velem.children[m].pages :
                    velem.children[n].screens[s].keyrefs[k].text
                        = velem.children[m].pages[q].key

\* C3: while the frames of a video are processed, and so whenever a keyref is
\* resolved, the video's page_dict holds the key of every page of every document
\* of the video; a video is only given up when one of its keyrefs names a key
\* that no page of the video has, and every keyref of a processed frame has
\* the page of its key.
C3_ResolveAfterPages ==
    /\ pc = "frames" =>
            /\ PageKeysOf(Current) \subseteq DOMAIN video.page_dict
            /\ \A k \in DOMAIN video.keyrefs :
                    /\ video.keyrefs[k].page.key = video.keyrefs[k].text
                    /\ video.keyrefs[k].page \in Range(video.pages)
    /\ pc = "failed" => ~(KeyrefTextsOf(Current) \subseteq PageKeysOf(Current))
    /\ \A v \in DOMAIN dataset.videos :
            KeyrefTextsOf(element[v]) \subseteq PageKeysOf(element[v])

C3_Witness ==
    /\ pc = "done"
    /\ \E v \in DOMAIN element :
            /\ RefersForward(element[v])
            /\ Len(result.value.videos[v].keyrefs) > 0

\* Every keyref element of every video names a key of a page of its own video.
AllKeysResolve ==
    \A v \in DOMAIN element : KeyrefTextsOf(element[v]) \subseteq PageKeysOf(element[v])

\* C4: the caller receives a Dataset only if every keyref names a page of its
\* own video, and then the whole graph; when a keyref names a key that its own
\* video lacks, the construction ends in the KeyError and the caller receives no
\* Dataset; a construction whose keyrefs all resolve never ends in the error.
C4_FailsOnMissingKey ==
    /\ result.returned = "Dataset" =>
            /\ AllKeysResolve
            /\ Len(result.value.videos) = Len(element)
    /\ pc = "failed" => result.returned = "KeyError" /\ ~AllKeysResolve
    /\ pc = "done" <=> result.returned = "Dataset"
    /\ (pc \notin {"idle", "done"} /\ ~AllKeysResolve) => result.returned # "Dataset"

\* The construction failed on a key that another video of the dataset has.
C4_Witness ==
    /\ pc = "failed"
    /\ result.returned = "KeyError"
    /\ \E k \in KeyrefTextsOf(Current) \ PageKeysOf(Current) :
            \E v \in DOMAIN element : v # video.id /\ k \in PageKeysOf(element[v])

\* C5: in the finished graph every keyref has a page of its own video with the
\* key of its text, and every video's page_dict holds pages of that video only,
\* also for a key that another video has.
C5_KeysPerVideo ==
    pc = "done" =>
        /\ \A k \in DOMAIN result.value.keyrefs :
                /\ result.value.keyrefs[k].page.video = result.value.keyrefs[k].video
                /\ result.value.keyrefs[k].page.key = result.value.keyrefs[k].text
        /\ \A v \in DOMAIN result.value.videos :
                /\ DOMAIN result.value.videos[v].page_dict = PageKeysOf(element[v])
                /\ \A key \in DOMAIN result.value.videos[v].page_dict :
                        result.value.videos[v].page_dict[key].video = v

\* Two videos have a page with the same key and a keyref to it each.
C5_Witness ==
    /\ pc = "done"
    /\ Len(result.value.videos) = 2
    /\ \E key \in Keys :
            \A v \in 1..2 :
                /\ key \in DOMAIN result.value.videos[v].page_dict
                /\ \E k \in DOMAIN result.value.videos[v].keyrefs :
                        /\ result.value.videos[v].keyrefs[k].text = key
                        /\ result.value.videos[v].keyrefs[k].page.video = v

----------------------------------------------------------------------------
(* Dataset.task1_evaluation_dataset and the process-wide random generator *)

\* The generator of the random module, reduced to RngModulus states: a
\* linear congruential step stands for a step of the Mersenne Twister.
RandomStep(state) == (5 * state + 3) % RngModulus

\* A call of random.seed that leaves the generator as it was.
RandomSeedIgnored(state, a) == state

\* random.seed(a): the new state depends on a alone.
RandomSeed(state, a) == a % RngModulus

Swap(x, m, n) ==
    [p \in DOMAIN x |-> IF p = m THEN x[n] ELSE IF p = n THEN x[m] ELSE x[p]]

\* random.shuffle(x): for i in reversed(xrange(1, len(x))):
\*     j = int(random() * (i+1)); x[i], x[j] = x[j], x[i]
\* with x[i] of Python at position i + 1.
RECURSIVE ShuffleFrom(_, _, _)
ShuffleFrom(x, state, n) ==
    IF n < 1 THEN [list |-> x, state |-> state]
    ELSE LET drawn == RandomStep(state)
             j == (drawn * (n + 1)) \div RngModulus
         IN  ShuffleFrom(Swap(x, n + 1, j + 1), drawn, n - 1)

RandomShuffle(x, state) == ShuffleFrom(x, state, Len(x) - 1)

\* The returned list and the state in which the call leaves the generator.
Task1EvaluationDataset(ds, k_folds, state) ==
    LET sample == ds.videos
        shuffled == RandomShuffle(sample, RandomSeed(state, RANDOM_STATE))
    IN  [value |-> SubSeq(shuffled.list, 1, Len(sample) - (Len(sample) % k_folds)),
         state |-> shuffled.state]

\* A finished dataset of n videos.
BuiltDataset(n) ==
    [EmptyDataset EXCEPT !.videos = [v \in 1..n |-> [EmptyVideo EXCEPT !.id = v]]]

CallTask1EvaluationDataset ==
    /\ pc = "done"
    /\ Len(samples) < MaxSamples
    /\ \E k_folds \in (1..MaxFolds) \cup {FOLDS_NUM} :
          LET call == Task1EvaluationDataset(dataset, k_folds, rng)
              \* whether the generator was used since the call before this one
              disturbed == /\ Len(samples) > 0
                           /\ rng # Task1EvaluationDataset(
                                        dataset, samples[Len(samples)].k_folds, rng).state
          IN  /\ samples' = Append(samples, [k_folds |-> k_folds, value |-> call.value,
                                               disturbed |-> disturbed])
              /\ rng' = call.state
    /\ UNCHANGED <<buildVars, screenVars, cropped>>

\* Any other use of the random module: it leaves the generator in some other state.
OtherRandomUse ==
    /\ pc = "done"
    /\ \E state \in (0..(RngModulus - 1)) \ {rng} : rng' = state
    /\ UNCHANGED <<buildVars, screenVars, samples, cropped>>

InitFold ==
    /\ pc = "done" /\ element = <<>> /\ video = EmptyVideo /\ idx = 0
    /\ \E n \in 0..MaxFoldVideos :
            /\ dataset = BuiltDataset(n)
            /\ result = [returned |-> "Dataset", value |-> BuiltDataset(n)]
    /\ screen = NoScreen /\ outlier = NoCall
    /\ rng \in 0..(RngModulus - 1)
    /\ samples = <<>>
    /\ cropped = NoCrop

NextFold ==
    \/ CallTask1EvaluationDataset
    \/ OtherRandomUse

SpecFold == InitFold /\ [][NextFold]_vars

IsPrefix(s, t) == Len(s) <= Len(t) /\ \A p \in DOMAIN s : s[p] = t[p]

\* C8: every sample has length n - (n mod k), the largest multiple of k that is
\* at most n, and consists of distinct videos of the dataset; two samples of the
\* same k are the same sequence, and any two samples are prefixes of one order,
\* whatever state the generator was in when they were taken.
C8_Sample ==
    /\ \A c \in DOMAIN samples :
            LET n == Len(dataset.videos)
                k == samples[c].k_folds
                r == samples[c].value
            IN  /\ Len(r) = n - (n % k)
                /\ Len(r) % k = 0 /\ Len(r) <= n /\ n < Len(r) + k
                /\ \A p, q \in DOMAIN r : p # q => r[p] # r[q]
                /\ Range(r) \subseteq Range(dataset.videos)
    /\ \A c, d \in DOMAIN samples :
            /\ samples[c].k_folds = samples[d].k_folds
                    => samples[c].value = samples[d].value
            /\ \/ IsPrefix(samples[c].value, samples[d].value)
               \/ IsPrefix(samples[d].value, samples[c].value)

\* Two samples of the same k with another use of the generator between them, of
\* which the first is not the order of Dataset.videos.
C8_Witness ==
    /\ Len(samples) = 2
    /\ samples[1].k_folds = 2 /\ samples[2].k_folds = 2
    /\ samples[2].disturbed
    /\ Len(samples[1].value) = 4
    /\ samples[1].value # SubSeq(dataset.videos, 1, 4)
    /\ samples[2].value = samples[1].value

----------------------------------------------------------------------------
(* crop *)

Points == (0..MaxCoordinate) \X (0..MaxCoordinate)

\* (q[0] - p[0]) ** 2 + (q[1] - p[1]) ** 2
SquaredDistance(p, q) == (q[1] - p[1]) * (q[1] - p[1]) + (q[2] - p[2]) * (q[2] - p[2])

RECURSIVE FloorSqrtFrom(_, _)
FloorSqrtFrom(n, r) == IF (r + 1) * (r + 1) > n THEN r ELSE FloorSqrtFrom(n, r + 1)

\* The square root rounded to the nearest integer.
IntSqrtRounded(n) ==
    LET r == FloorSqrtFrom(n, 0) IN IF n - r * r > r THEN r + 1 ELSE r

\* int(np.sqrt(n)): the square root with its fraction cut off.
IntSqrt(n) == FloorSqrtFrom(n, 0)

Crop(top_left, top_right, bottom_left, bottom_right) ==
    LET width_a == SquaredDistance(bottom_left, bottom_right)
        width_b == SquaredDistance(top_left, top_right)
        height_a == SquaredDistance(bottom_right, top_right)
        height_b == SquaredDistance(bottom_left, top_left)
        max_width == Max(IntSqrt(width_a), IntSqrt(width_b))
        max_height == Max(IntSqrt(height_a), IntSqrt(height_b))
    IN  [called |-> TRUE,
         quadrilinear |-> BoundingQuadrilinear(top_left, top_right,
                                               bottom_left, bottom_right),
         max_width |-> max_width,
         max_height |-> max_height,
         src |-> <<top_left, top_right, bottom_right, bottom_left>>,
         dst |-> << <<0, 0>>, <<max_width - 1, 0>>,
                    <<max_width - 1, max_height - 1>>, <<0, max_height - 1>> >>,
         dsize |-> <<max_width, max_height>>,
         returned |-> "image"]

CallCrop ==
    /\ ~cropped.called
    /\ \E top_left, top_right, bottom_left, bottom_right \in Points :
            cropped' = Crop(top_left, top_right, bottom_left, bottom_right)
    /\ UNCHANGED <<buildVars, screenVars, foldVars>>

NextCrop == CallCrop

SpecCrop == InitScreen /\ [][NextCrop]_vars

\* p, q and r lie on one line.
Collinear(p, q, r) ==
    (q[1] - p[1]) * (r[2] - p[2]) = (q[2] - p[2]) * (r[1] - p[1])

ThreeCollinear(b) ==
    \/ Collinear(b.top_left, b.top_right, b.bottom_left)
    \/ Collinear(b.top_left, b.top_right, b.bottom_right)
    \/ Collinear(b.top_left, b.bottom_left, b.bottom_right)
    \/ Collinear(b.top_right, b.bottom_left, b.bottom_right)

\* C9: crop of a quadrilateral with three collinear corners fails with a
\* geometry error and returns no image.
C9_GeometryError ==
    (cropped.called /\ ThreeCollinear(cropped.quadrilinear))
        => cropped.returned = "GeometryError"

\* r is the largest integer whose square is at most n.
IsFloorOfSqrt(r, n) == r >= 0 /\ r * r <= n /\ n < (r + 1) * (r + 1)

\* C10: the width is the floor of the larger of the lengths of the bottom and
\* the top edge, the height the floor of the larger of the lengths of the right
\* and the left edge, each also the larger of the floors; and the corners are
\* sent top_left to (0,0), top_right to (width-1,0), bottom_right to
\* (width-1,height-1) and bottom_left to (0,height-1).
C10_OutputSize ==
    cropped.called =>
        LET b == cropped.quadrilinear
            w == cropped.max_width
            h == cropped.max_height
            bottom == SquaredDistance(b.bottom_left, b.bottom_right)
            top == SquaredDistance(b.top_left, b.top_right)
            right == SquaredDistance(b.top_right, b.bottom_right)
            left == SquaredDistance(b.top_left, b.bottom_left)
        IN  /\ IsFloorOfSqrt(w, Max(bottom, top))
            /\ IsFloorOfSqrt(h, Max(right, left))
            /\ \E wa, wb \in 0..w :
                    IsFloorOfSqrt(wa, bottom) /\ IsFloorOfSqrt(wb, top) /\ w = Max(wa, wb)
            /\ \E ha, hb \in 0..h :
                    IsFloorOfSqrt(ha, right) /\ IsFloorOfSqrt(hb, left) /\ h = Max(ha, hb)
            /\ cropped.dsize = <<w, h>>
            /\ DOMAIN cropped.src = 1..4 /\ DOMAIN cropped.dst = 1..4
            /\ \E p \in [{"top_left", "top_right", "bottom_right", "bottom_left"} -> 1..4] :
                    /\ \A c, d \in DOMAIN p : c # d => p[c] # p[d]
                    /\ cropped.src[p["top_left"]] = b.top_left
                    /\ cropped.dst[p["top_left"]] = <<0, 0>>
                    /\ cropped.src[p["top_right"]] = b.top_right
                    /\ cropped.dst[p["top_right"]] = <<w - 1, 0>>
                    /\ cropped.src[p["bottom_right"]] = b.bottom_right
                    /\ cropped.dst[p["bottom_right"]] = <<w - 1, h - 1>>
                    /\ cropped.src[p["bottom_left"]] = b.bottom_left
                    /\ cropped.dst[p["bottom_left"]] = <<0, h - 1>>

\* A bottom edge of length sqrt(8), which rounding would turn into 3.
C10_Witness ==
    /\ cropped.called
    /\ SquaredDistance(cropped.quadrilinear.bottom_left,
                       cropped.quadrilinear.bottom_right) = 8
    /\ cropped.max_width = 2

====
